---- MODULE Spec2Model ----
(***************************************************************************)
(* Model of src/status.rs of RF24-rs: the Status, FIFOStatus and           *)
(* Interrupts wrappers around the nRF24L01 register bytes, and the three   *)
(* renderings of a Status (core::fmt::Debug, ufmt::uDebug, defmt::Format). *)
(***************************************************************************)
EXTENDS Naturals, Sequences, FiniteSets

VARIABLES
    raw,        \* Option<u8>: the byte handed to Status::from ({} after Status::flags())
    status,     \* Status.0 of the current Status object
    facts,      \* the result of reading the five boolean accessors of `status`
    pipe,       \* the outcome of the last data_pipe_available() call on `status`
    out,        \* the outcome of the last rendering of `status`
    fifoRaw,    \* the byte handed to FIFOStatus::from
    fifo,       \* FIFOStatus.0 of the current FIFOStatus object
    fifoFacts,  \* the result of reading the four accessors of `fifo`
    irq,        \* Interrupts.0 of the current Interrupts object
    irqOp,      \* the constructor or fluent method that produced `irq`
    irqOld,     \* Option<u8>: Interrupts.0 of the mask a fluent method consumed
    irqRaw,     \* Option<u8>: the byte handed to Interrupts::from, if the mask began there
    irqQuery    \* the last contains(kind) query on `irq` and its answer

statusVars == <<raw, status, facts, pipe, out>>
fifoVars == <<fifoRaw, fifo, fifoFacts>>
irqVars == <<irq, irqOp, irqOld, irqRaw, irqQuery>>
vars == <<raw, status, facts, pipe, out, fifoRaw, fifo, fifoFacts,
          irq, irqOp, irqOld, irqRaw, irqQuery>>

----------------------------------------------------------------------------
(* u8 arithmetic *)

U8Bits == 8

\* The values of a u8.
Byte == 0 .. (2^U8Bits - 1)

\* x >> n on a u8.
Shr(x, n) == x \div (2^n)

\* x & y on w-bit values, bit by bit from the least significant one.
RECURSIVE BitAndW(_, _, _)
BitAndW(x, y, w) ==
    IF w = 0 THEN 0
    ELSE (IF x % 2 = 1 /\ y % 2 = 1 THEN 1 ELSE 0)
         + 2 * BitAndW(x \div 2, y \div 2, w - 1)

BitAnd(x, y) == BitAndW(x, y, U8Bits)

\* x | y on w-bit values, bit by bit from the least significant one.
RECURSIVE BitOrW(_, _, _)
BitOrW(x, y, w) ==
    IF w = 0 THEN 0
    ELSE (IF x % 2 = 1 \/ y % 2 = 1 THEN 1 ELSE 0)
         + 2 * BitOrW(x \div 2, y \div 2, w - 1)

BitOr(x, y) == BitOrW(x, y, U8Bits)

----------------------------------------------------------------------------
(* crate::config::DataPipe, as status.rs uses it: From<u8> and pipe() *)

DataPipe == {"DP0", "DP1", "DP2", "DP3", "DP4", "DP5"}

DataPipe_from(x) ==
    CASE x = 0 -> "DP0"
      [] x = 1 -> "DP1"
      [] x = 2 -> "DP2"
      [] x = 3 -> "DP3"
      [] x = 4 -> "DP4"
      [] x = 5 -> "DP5"

DataPipe_pipe(p) ==
    CASE p = "DP0" -> 0
      [] p = "DP1" -> 1
      [] p = "DP2" -> 2
      [] p = "DP3" -> 3
      [] p = "DP4" -> 4
      [] p = "DP5" -> 5

----------------------------------------------------------------------------
(* impl Status *)

\* The retries flag left out of the all-flags value.
Status_flags_NoRetries == \b01100000

Status_flags == \b01110000

Status_value(s) == s

\* Validity tested on bit 6 instead of bit 7.
Status_is_valid_Bit6(s) == BitAnd(Shr(s, 6), 1) = 0

Status_is_valid(s) == BitAnd(Shr(s, 7), 1) = 0

Status_data_ready(s) == BitAnd(Shr(s, 6), 1) # 0

Status_data_sent(s) == BitAnd(Shr(s, 5), 1) # 0

Status_reached_max_retries(s) == BitAnd(Shr(s, 4), 1) # 0

\* An Option is a set of at most one element; a call either returns or panics.
Returned(opt) == [outcome |-> "Returned", value |-> opt]
Panicked == [outcome |-> "Panicked", value |-> {}]
NotCalled == [outcome |-> "NotCalled", value |-> {}]

\* The reserved encoding 6 decoded as "no pipe" instead of panicking.
Status_data_pipe_available_Lenient(s) ==
    LET x == BitAnd(Shr(s, 1), \b111)
    IN  CASE x \in 0 .. 5 -> Returned({DataPipe_from(x)})
          [] x = 6 -> Returned({})
          [] x = 7 -> Returned({})

Status_data_pipe_available(s) ==
    LET x == BitAnd(Shr(s, 1), \b111)
    IN  CASE x \in 0 .. 5 -> Returned({DataPipe_from(x)})
          [] x = 6 -> Panicked
          [] x = 7 -> Returned({})

Status_tx_full(s) == BitAnd(s, \b1) # 0

\* The raw byte stored with bit 7 cleared.
Status_from_Masked(t) == BitAnd(t, \b01111111)

\* impl From<u8> for Status
Status_from(t) == t

----------------------------------------------------------------------------
(* Rendering of a Status.  A rendering is the sequence of calls the code    *)
(* makes on the formatter, each a tuple of strings, and how fmt ended:      *)
(* "Ok" / "Err" (the writer's result), or "Panicked".  failAt is the        *)
(* writer's behaviour: 0 when it accepts every call, k when the k-th call   *)
(* on it returns an error.                                                  *)

WriterFailMax == 7

InvalidMsg == "Invalid status. Something went wrong during communication with nrf24l01"

BoolStr(b) == IF b THEN "true" ELSE "false"

\* Display of a u8 below 10.
U8Str(n) == <<"0", "1", "2", "3", "4", "5", "6", "7", "8", "9">>[n + 1]

NotRendered ==
    [backend |-> "none", failAt |-> 0, outcome |-> "NotRendered",
     calls |-> <<>>, pipeEvaluated |-> FALSE]

Rendered(backend, failAt, outcome, calls, pipeEvaluated) ==
    [backend |-> backend, failAt |-> failAt, outcome |-> outcome,
     calls |-> calls, pipeEvaluated |-> pipeEvaluated]

\* The writer's result after n calls on it.
WriterResult(failAt, n) == IF failAt \in 1 .. n THEN "Err" ELSE "Ok"

\* The calls before the match on data_pipe_available().
FieldsBeforePipe(s) ==
    << <<"debug_struct", "Status">>,
       <<"field", "Data ready", BoolStr(Status_data_ready(s))>>,
       <<"field", "Data sent", BoolStr(Status_data_sent(s))>>,
       <<"field", "Reached max retries", BoolStr(Status_reached_max_retries(s))>> >>

\* The arm of the match on data_pipe_available(), then tx_full and finish.
FieldsFromPipe(s, opt) ==
    << IF opt = {}
       THEN <<"field", "No data ready to be read in FIFO", BoolStr(TRUE)>>
       ELSE <<"field", "Data ready to be read on pipe",
              U8Str(DataPipe_pipe(CHOOSE p \in opt : TRUE))>>,
       <<"field", "Transmission FIFO full", BoolStr(Status_tx_full(s))>>,
       <<"finish">> >>

\* The fields rendered without testing is_valid() first.
Status_Debug_fmt_Unchecked(s, failAt) ==
    LET before == FieldsBeforePipe(s)
        p == Status_data_pipe_available(s)
    IN  IF p.outcome = "Panicked"
        THEN Rendered("Debug", failAt, "Panicked", before, TRUE)
        ELSE LET calls == before \o FieldsFromPipe(s, p.value)
             IN  Rendered("Debug", failAt, WriterResult(failAt, Len(calls)),
                          calls, TRUE)

\* impl core::fmt::Debug for Status.  DebugStruct keeps the writer's error
\* to itself until finish(), so every call of the branch is made.
Status_Debug_fmt(s, failAt) ==
    IF ~Status_is_valid(s)
    THEN Rendered("Debug", failAt, WriterResult(failAt, 1),
                  << <<"write_str", InvalidMsg>> >>, FALSE)
    ELSE LET before == FieldsBeforePipe(s)
             p == Status_data_pipe_available(s)
         IN  IF p.outcome = "Panicked"
             THEN Rendered("Debug", failAt, "Panicked", before, TRUE)
             ELSE LET calls == before \o FieldsFromPipe(s, p.value)
                  IN  Rendered("Debug", failAt, WriterResult(failAt, Len(calls)),
                               calls, TRUE)

\* impl uDebug for Status.  Every call but the last carries `?`: the first
\* error of the writer is returned at once.
Status_uDebug_fmt(s, failAt) ==
    IF ~Status_is_valid(s)
    THEN Rendered("uDebug", failAt, WriterResult(failAt, 1),
                  << <<"write_str", InvalidMsg>> >>, FALSE)
    ELSE LET before == FieldsBeforePipe(s)
             p == Status_data_pipe_available(s)
         IN  IF failAt \in 1 .. Len(before)
             THEN Rendered("uDebug", failAt, "Err", SubSeq(before, 1, failAt), FALSE)
             ELSE IF p.outcome = "Panicked"
             THEN Rendered("uDebug", failAt, "Panicked", before, TRUE)
             ELSE LET calls == before \o FieldsFromPipe(s, p.value)
                  IN  IF failAt \in 1 .. Len(calls)
                      THEN Rendered("uDebug", failAt, "Err",
                                    SubSeq(calls, 1, failAt), TRUE)
                      ELSE Rendered("uDebug", failAt, "Ok", calls, TRUE)

\* impl defmt::Format for PipeReadStatus
PipeReadStatus_format(opt) ==
    IF opt = {}
    THEN <<"No data ready to be read in FIFO">>
    ELSE <<"Data ready to be read on pipe: {}",
           U8Str(DataPipe_pipe(CHOOSE p \in opt : TRUE))>>

\* impl defmt::Format for Status.  format() returns nothing and the
\* arguments of write! are evaluated before anything is written.
Status_Format_format(s) ==
    IF ~Status_is_valid(s)
    THEN Rendered("defmt", 0, "Ok", << <<"write", InvalidMsg>> >>, FALSE)
    ELSE LET p == Status_data_pipe_available(s)
         IN  IF p.outcome = "Panicked"
             THEN Rendered("defmt", 0, "Panicked", <<>>, TRUE)
             ELSE Rendered("defmt", 0, "Ok",
                      << <<"write",
                           "Status {{ Data ready: {}, Data sent: {}, Reached max retries: {}, {}, Transmission FIFO full: {} }}",
                           BoolStr(Status_data_ready(s)),
                           BoolStr(Status_data_sent(s)),
                           BoolStr(Status_reached_max_retries(s))>>
                         \o PipeReadStatus_format(p.value)
                         \o <<BoolStr(Status_tx_full(s))>> >>,
                      TRUE)

----------------------------------------------------------------------------
(* impl Interrupts, enum InterruptKind *)

TransmissionFail == \b00010000
TransmissionOk == \b00100000
DataReady == \b01000000

InterruptKind == {TransmissionFail, TransmissionOk, DataReady}

Interrupts_new == 0

Interrupts_transmission_fail(self) == BitOr(self, TransmissionFail)

Interrupts_transmission_ok(self) == BitOr(self, TransmissionOk)

\* The bit assigned instead of or-ed in.
Interrupts_data_ready_Assign(self) == DataReady

Interrupts_data_ready(self) == BitOr(self, DataReady)

\* DataReady left out of the full mask.
Interrupts_all_NoDataReady ==
    LET x == Interrupts_new
    IN  BitOr(x, BitOr(TransmissionFail, TransmissionOk))

Interrupts_all ==
    LET x == Interrupts_new
    IN  BitOr(x, BitOr(BitOr(TransmissionFail, TransmissionOk), DataReady))

Interrupts_contains(self, kind) == BitAnd(self, kind) >= 1

Interrupts_value(self) == self

\* The raw byte stored without masking.
Interrupts_from_Unmasked(t) == t

\* impl From<u8> for Interrupts
Interrupts_from(t) == BitAnd(t, Interrupts_value(Interrupts_all))

----------------------------------------------------------------------------
(* impl FIFOStatus *)

\* tx_full read from the tx_empty position.
FIFOStatus_tx_full_Bit4(s) == BitAnd(Shr(s, 4), 1) # 0

FIFOStatus_tx_full(s) == BitAnd(Shr(s, 5), 1) # 0

FIFOStatus_tx_empty(s) == BitAnd(Shr(s, 4), 1) # 0

\* rx_full derived as the negation of rx_empty.
FIFOStatus_rx_full_NotEmpty(s) == ~(BitAnd(s, 1) # 0)

FIFOStatus_rx_full(s) == BitAnd(Shr(s, 1), 1) # 0

FIFOStatus_rx_empty(s) == BitAnd(s, 1) # 0

\* impl From<u8> for FIFOStatus
FIFOStatus_from(t) == t

----------------------------------------------------------------------------
(* The Status state machine: the driver builds a Status from each byte the  *)
(* transport delivers (or from flags()), then queries and renders it.       *)

\* panic!() ends the program: nothing runs after it.
Alive == pipe.outcome # "Panicked" /\ out.outcome # "Panicked"

StatusFresh == facts = {} /\ pipe = NotCalled /\ out = NotRendered

StatusInit ==
    /\ \/ raw = {} /\ status = Status_flags
       \/ \E b \in Byte : raw = {b} /\ status = Status_from(b)
    /\ StatusFresh

StatusFrom ==
    /\ Alive
    /\ \E b \in Byte : raw' = {b} /\ status' = Status_from(b)
    /\ facts' = {} /\ pipe' = NotCalled /\ out' = NotRendered
    /\ UNCHANGED <<fifoVars, irqVars>>

StatusFlags ==
    /\ Alive
    /\ raw' = {}
    /\ status' = Status_flags
    /\ facts' = {} /\ pipe' = NotCalled /\ out' = NotRendered
    /\ UNCHANGED <<fifoVars, irqVars>>

StatusReadFlags ==
    /\ Alive
    /\ facts' = {[is_valid |-> Status_is_valid(status),
                  data_ready |-> Status_data_ready(status),
                  data_sent |-> Status_data_sent(status),
                  reached_max_retries |-> Status_reached_max_retries(status),
                  tx_full |-> Status_tx_full(status)]}
    /\ UNCHANGED <<raw, status, pipe, out, fifoVars, irqVars>>

StatusDataPipeAvailable ==
    /\ Alive
    /\ pipe' = Status_data_pipe_available(status)
    /\ UNCHANGED <<raw, status, facts, out, fifoVars, irqVars>>

StatusDebugFmt ==
    /\ Alive
    /\ \E failAt \in 0 .. WriterFailMax : out' = Status_Debug_fmt(status, failAt)
    /\ UNCHANGED <<raw, status, facts, pipe, fifoVars, irqVars>>

StatusUDebugFmt ==
    /\ Alive
    /\ \E failAt \in 0 .. WriterFailMax : out' = Status_uDebug_fmt(status, failAt)
    /\ UNCHANGED <<raw, status, facts, pipe, fifoVars, irqVars>>

StatusDefmtFormat ==
    /\ Alive
    /\ out' = Status_Format_format(status)
    /\ UNCHANGED <<raw, status, facts, pipe, fifoVars, irqVars>>

----------------------------------------------------------------------------
(* The FIFOStatus state machine *)

FifoInit ==
    /\ \E b \in Byte : fifoRaw = b /\ fifo = FIFOStatus_from(b)
    /\ fifoFacts = {}

FifoFrom ==
    /\ \E b \in Byte : fifoRaw' = b /\ fifo' = FIFOStatus_from(b)
    /\ fifoFacts' = {}
    /\ UNCHANGED <<statusVars, irqVars>>

FifoReadFlags ==
    /\ fifoFacts' = {[tx_full |-> FIFOStatus_tx_full(fifo),
                      tx_empty |-> FIFOStatus_tx_empty(fifo),
                      rx_full |-> FIFOStatus_rx_full(fifo),
                      rx_empty |-> FIFOStatus_rx_empty(fifo)]}
    /\ UNCHANGED <<fifoRaw, fifo, statusVars, irqVars>>

----------------------------------------------------------------------------
(* The Interrupts state machine: a mask is built by new(), all() or         *)
(* from(b), and each fluent method consumes it and returns the next one.    *)

IrqInit ==
    /\ irq = Interrupts_new
    /\ irqOp = "new"
    /\ irqOld = {}
    /\ irqRaw = {}
    /\ irqQuery = {}

IrqNew ==
    /\ irq' = Interrupts_new
    /\ irqOp' = "new"
    /\ irqOld' = {} /\ irqRaw' = {} /\ irqQuery' = {}
    /\ UNCHANGED <<statusVars, fifoVars>>

IrqAll ==
    /\ irq' = Interrupts_all
    /\ irqOp' = "all"
    /\ irqOld' = {} /\ irqRaw' = {} /\ irqQuery' = {}
    /\ UNCHANGED <<statusVars, fifoVars>>

IrqFrom ==
    /\ \E b \in Byte : irq' = Interrupts_from(b) /\ irqRaw' = {b}
    /\ irqOp' = "from"
    /\ irqOld' = {} /\ irqQuery' = {}
    /\ UNCHANGED <<statusVars, fifoVars>>

IrqTransmissionFail ==
    /\ irq' = Interrupts_transmission_fail(irq)
    /\ irqOp' = "transmission_fail"
    /\ irqOld' = {irq} /\ irqQuery' = {}
    /\ UNCHANGED <<irqRaw, statusVars, fifoVars>>

IrqTransmissionOk ==
    /\ irq' = Interrupts_transmission_ok(irq)
    /\ irqOp' = "transmission_ok"
    /\ irqOld' = {irq} /\ irqQuery' = {}
    /\ UNCHANGED <<irqRaw, statusVars, fifoVars>>

IrqDataReady ==
    /\ irq' = Interrupts_data_ready(irq)
    /\ irqOp' = "data_ready"
    /\ irqOld' = {irq} /\ irqQuery' = {}
    /\ UNCHANGED <<irqRaw, statusVars, fifoVars>>

IrqContains ==
    /\ \E kind \in InterruptKind :
           irqQuery' = {[kind |-> kind, answer |-> Interrupts_contains(irq, kind)]}
    /\ UNCHANGED <<irq, irqOp, irqOld, irqRaw, statusVars, fifoVars>>

----------------------------------------------------------------------------
(* Specifications: the three types share no state, so each is checked on    *)
(* its own while the other two stay as constructed.                         *)

StatusIdle == raw = {} /\ status = Status_flags /\ StatusFresh
FifoIdle == fifoRaw = 0 /\ fifo = FIFOStatus_from(0) /\ fifoFacts = {}

InitStatus == StatusInit /\ FifoIdle /\ IrqInit
NextStatus ==
    \/ StatusFrom
    \/ StatusFlags
    \/ StatusReadFlags
    \/ StatusDataPipeAvailable
    \/ StatusDebugFmt
    \/ StatusUDebugFmt
    \/ StatusDefmtFormat
SpecStatus == InitStatus /\ [][NextStatus]_vars

InitFifo == FifoInit /\ StatusIdle /\ IrqInit
NextFifo == FifoFrom \/ FifoReadFlags
SpecFifo == InitFifo /\ [][NextFifo]_vars

InitIrq == IrqInit /\ StatusIdle /\ FifoIdle
NextIrq ==
    \/ IrqNew
    \/ IrqAll
    \/ IrqFrom
    \/ IrqTransmissionFail
    \/ IrqTransmissionOk
    \/ IrqDataReady
    \/ IrqContains
SpecIrq == InitIrq /\ [][NextIrq]_vars

----------------------------------------------------------------------------
(* Properties.  Bits are read here by arithmetic on the byte, independently *)
(* of the shift-and-mask operators above.                                   *)

\* Bit k of byte b is set.
Bit(b, k) == (b \div (2^k)) % 2 = 1

\* The positions of the bits set in b.
Bits(b) == {k \in 0 .. 7 : Bit(b, k)}

\* b with bit k flipped.
Flip(b, k) == IF Bit(b, k) THEN b - 2^k ELSE b + 2^k

\* The 3-bit field at bits 3..1.
PipeField(b) == (b \div 2) % 8

\* C1: data_pipe_available() is decided by the field at bits 3..1 alone:
\* fields 0..5 return Some(pipe) with pipe index = field, field 7 returns
\* None, field 6 panics and returns nothing; every byte with the same field
\* (whatever bits 7..4 and bit 0) has the same outcome.
C1_PipeDecode ==
    pipe.outcome # "NotCalled" =>
        LET f == PipeField(status)
        IN  /\ f \in 0 .. 5 =>
                /\ pipe.outcome = "Returned"
                /\ Cardinality(pipe.value) = 1
                /\ \A p \in pipe.value : p \in DataPipe /\ DataPipe_pipe(p) = f
            /\ f = 7 => pipe.outcome = "Returned" /\ pipe.value = {}
            /\ f = 6 => pipe.outcome = "Panicked" /\ pipe.value = {}
            /\ \A b \in Byte :
                   PipeField(b) = f =>
                       Status_data_pipe_available(Status_from(b)) = pipe

\* The reserved field 6 in a byte that also has bit 7 and bit 0 set.
C1_Witness == status = \b10001101 /\ pipe.outcome = "Panicked"

\* C2: the stored value of an Interrupts mask never has a bit outside
\* bits 6, 5, 4, however the mask was built.
C2_MaskSubset == irq \in Byte /\ Bits(Interrupts_value(irq)) \subseteq {4, 5, 6}

\* A mask read back from 0xFF and then extended by a fluent call.
C2_Witness == irqRaw = {255} /\ irqOp = "transmission_ok" /\ irq = \b01110000

\* C3: Interrupts::from(b).value() is b AND all().value(), all().value() is
\* 0b0111_0000, and from(0xFF) equals all().
C3_FromMasks ==
    /\ Interrupts_value(Interrupts_all) = \b01110000
    /\ irqOp = "all" => Interrupts_value(irq) = \b01110000
    /\ irqOp = "from" =>
           \A b \in irqRaw :
               /\ Bits(Interrupts_value(irq)) = Bits(b) \cap {4, 5, 6}
               /\ b = 255 => Interrupts_value(irq) = Interrupts_value(Interrupts_all)

C3_Witness == irqOp = "from" /\ irqRaw = {255} /\ irq = \b01110000

\* C4 as stated: at the byte 0b0111_0000 that flags() holds, is_valid,
\* data_ready, data_sent and reached_max_retries are true, tx_full is false
\* and data_pipe_available() is None.
C4_Original ==
    /\ raw = {} => Status_value(status) = 112
    /\ Status_value(status) = 112 =>
           /\ \A f \in facts :
                  /\ f.is_valid /\ f.data_ready /\ f.data_sent
                  /\ f.reached_max_retries /\ ~f.tx_full
           /\ pipe.outcome # "NotCalled" => pipe = Returned({})

\* C4 amended: at the byte 0b0111_0000 that flags() holds, the four flags
\* are true and tx_full is false as stated, and data_pipe_available()
\* returns Some(pipe 0): bits 3..1 of the byte are 000, not 111.
C4_FlagsByte ==
    /\ raw = {} => Status_value(status) = 112
    /\ Status_value(status) = 112 =>
           /\ \A f \in facts :
                  /\ f.is_valid /\ f.data_ready /\ f.data_sent
                  /\ f.reached_max_retries /\ ~f.tx_full
           /\ pipe.outcome # "NotCalled" =>
                  /\ pipe.outcome = "Returned"
                  /\ Cardinality(pipe.value) = 1
                  /\ \A p \in pipe.value : DataPipe_pipe(p) = 0

C4_Witness ==
    /\ raw = {} /\ status = 112
    /\ facts # {}
    /\ pipe.outcome = "Returned" /\ pipe.value # {}

\* C5: for Status::from(b), is_valid() is true iff bit 7 of b is clear,
\* data_ready(), data_sent(), reached_max_retries() and tx_full() are bits
\* 6, 5, 4 and 0 of b, also when bit 7 is set; flipping any other bit of the
\* byte changes none of them.
C5_SingleBitAccessors ==
    /\ \A b \in raw : \A f \in facts :
           /\ f.is_valid <=> ~Bit(b, 7)
           /\ f.data_ready <=> Bit(b, 6)
           /\ f.data_sent <=> Bit(b, 5)
           /\ f.reached_max_retries <=> Bit(b, 4)
           /\ f.tx_full <=> Bit(b, 0)
    /\ \A k \in 0 .. 7 :
           LET t == Flip(status, k)
           IN  /\ k # 7 => Status_is_valid(t) = Status_is_valid(status)
               /\ k # 6 => Status_data_ready(t) = Status_data_ready(status)
               /\ k # 5 => Status_data_sent(t) = Status_data_sent(status)
               /\ k # 4 => Status_reached_max_retries(t)
                               = Status_reached_max_retries(status)
               /\ k # 0 => Status_tx_full(t) = Status_tx_full(status)

\* An invalid byte (bit 7 set) whose other flag bits are still reported.
C5_Witness ==
    /\ raw = {\b11010001}
    /\ facts = {[is_valid |-> FALSE, data_ready |-> TRUE, data_sent |-> FALSE,
                 reached_max_retries |-> TRUE, tx_full |-> TRUE]}

\* C6: FIFOStatus::from(b) reports tx_full = bit 5, tx_empty = bit 4,
\* rx_full = bit 1, rx_empty = bit 0 of b; bits 7, 6, 3, 2 affect none of
\* them, and each of the 16 combinations of the four flags is reported for
\* some byte, the contradictory ones included.
C6_FifoFlags ==
    /\ \A f \in fifoFacts :
           /\ f.tx_full <=> Bit(fifoRaw, 5)
           /\ f.tx_empty <=> Bit(fifoRaw, 4)
           /\ f.rx_full <=> Bit(fifoRaw, 1)
           /\ f.rx_empty <=> Bit(fifoRaw, 0)
    /\ \A k \in {7, 6, 3, 2} :
           LET t == FIFOStatus_from(Flip(fifoRaw, k))
           IN  /\ FIFOStatus_tx_full(t) = FIFOStatus_tx_full(fifo)
               /\ FIFOStatus_tx_empty(t) = FIFOStatus_tx_empty(fifo)
               /\ FIFOStatus_rx_full(t) = FIFOStatus_rx_full(fifo)
               /\ FIFOStatus_rx_empty(t) = FIFOStatus_rx_empty(fifo)
    /\ \A c \in [{"tx_full", "tx_empty", "rx_full", "rx_empty"} -> BOOLEAN] :
           \E b \in Byte :
               LET t == FIFOStatus_from(b)
               IN  /\ FIFOStatus_tx_full(t) = c["tx_full"]
                   /\ FIFOStatus_tx_empty(t) = c["tx_empty"]
                   /\ FIFOStatus_rx_full(t) = c["rx_full"]
                   /\ FIFOStatus_rx_empty(t) = c["rx_empty"]

\* A contradictory read: both queues reported full and empty at once.
C6_Witness ==
    /\ fifoRaw = \b11111111
    /\ fifoFacts = {[tx_full |-> TRUE, tx_empty |-> TRUE,
                     rx_full |-> TRUE, rx_empty |-> TRUE]}

\* C7 as stated: FIFOStatus::from(0b0011_0011) has tx_full false, tx_empty
\* true, rx_full true and rx_empty true.
C7_Original ==
    fifoRaw = \b00110011 =>
        \A f \in fifoFacts : ~f.tx_full /\ f.tx_empty /\ f.rx_full /\ f.rx_empty

\* C7 amended: FIFOStatus::from(0b0011_0011) has tx_full true (bit 5 of the
\* byte is 1), tx_empty true, rx_full true and rx_empty true.
C7_FifoByte ==
    fifoRaw = \b00110011 =>
        \A f \in fifoFacts : f.tx_full /\ f.tx_empty /\ f.rx_full /\ f.rx_empty

C7_Witness == fifoRaw = \b00110011 /\ fifoFacts # {}

\* The bit position of an interrupt source.
KindBit(kind) == CHOOSE k \in 0 .. 7 : 2^k = kind

\* The fluent method named op, applied to mask m.
Fluent(op, m) ==
    CASE op = "transmission_fail" -> Interrupts_transmission_fail(m)
      [] op = "transmission_ok" -> Interrupts_transmission_ok(m)
      [] op = "data_ready" -> Interrupts_data_ready(m)

\* The source a fluent method sets.
FluentKind(op) ==
    CASE op = "transmission_fail" -> TransmissionFail
      [] op = "transmission_ok" -> TransmissionOk
      [] op = "data_ready" -> DataReady

\* C8: a fluent method returns the consumed mask with its source's bit
\* or-ed in: the source is contained afterwards, every other source is
\* contained exactly if it was before, and a second application changes
\* nothing; new() contains no source; a contains() query answers whether
\* the source's bit is set.
C8_FluentSetsOneBit ==
    /\ irqOp = "new" => \A kind \in InterruptKind : ~Interrupts_contains(irq, kind)
    /\ irqOp \in {"transmission_fail", "transmission_ok", "data_ready"} =>
           \A m \in irqOld :
               LET s == FluentKind(irqOp)
               IN  /\ Bits(Interrupts_value(irq))
                          = Bits(Interrupts_value(m)) \cup {KindBit(s)}
                   /\ Interrupts_contains(irq, s)
                   /\ \A t \in InterruptKind \ {s} :
                          Interrupts_contains(irq, t) = Interrupts_contains(m, t)
                   /\ Fluent(irqOp, irq) = irq
    /\ \A q \in irqQuery : q.answer <=> KindBit(q.kind) \in Bits(irq)

\* data_ready() applied to a mask that already holds the other two sources.
C8_Witness ==
    /\ irqOp = "data_ready"
    /\ irqOld = {\b00110000}
    /\ irq = \b01110000
    /\ irqQuery = {[kind |-> TransmissionOk, answer |-> TRUE]}

\* C9: Status::from(b).value() = b for every byte b, bytes with bit 7 set
\* and bytes with the reserved pipe field 6 included.
C9_RoundTrip ==
    /\ \A b \in raw : Status_value(status) = b
    /\ \A b \in Byte : Status_value(Status_from(b)) = b

\* A byte with bit 7 set and the reserved pipe field 6.
C9_Witness == raw = {\b10001100} /\ Status_value(status) = \b10001100

\* The single diagnostic an invalid status renders to.
OnlyDiagnostic(calls) ==
    /\ Len(calls) = 1
    /\ Len(calls[1]) = 2
    /\ calls[1][1] \in {"write_str", "write"}
    /\ calls[1][2] = InvalidMsg

\* C10 as stated: rendering panics iff bit 7 is clear and the pipe field is
\* 6; with bit 7 set it emits only the invalid-status diagnostic and does
\* not evaluate data_pipe_available(); with bit 7 clear it evaluates
\* data_pipe_available().
C10_Original ==
    out.outcome # "NotRendered" =>
        /\ out.outcome = "Panicked" <=> (~Bit(status, 7) /\ PipeField(status) = 6)
        /\ Bit(status, 7) => OnlyDiagnostic(out.calls) /\ ~out.pipeEvaluated
        /\ ~Bit(status, 7) => out.pipeEvaluated

\* uDebug returned the writer's error from the struct header or from one of
\* the three fields written before the pipe lookup.
EarlyWriterError ==
    out.backend = "uDebug" /\ out.failAt \in 1 .. 4 /\ ~Bit(status, 7)

\* C10 amended: as stated for Debug and defmt, and for uDebug while the
\* writer accepts the struct header and the first three fields; when the
\* writer fails on one of those, uDebug returns the error without
\* evaluating data_pipe_available(), so it does not panic even on field 6.
\* A rendering that panics never reaches finish().
C10_Rendering ==
    out.outcome # "NotRendered" =>
        /\ out.outcome = "Panicked"
               <=> (~Bit(status, 7) /\ PipeField(status) = 6 /\ ~EarlyWriterError)
        /\ Bit(status, 7) => OnlyDiagnostic(out.calls) /\ ~out.pipeEvaluated
        /\ ~Bit(status, 7) => (out.pipeEvaluated <=> ~EarlyWriterError)
        /\ EarlyWriterError => out.outcome = "Err" /\ Len(out.calls) = out.failAt
        /\ out.outcome = "Panicked" =>
               \A i \in 1 .. Len(out.calls) : out.calls[i] # <<"finish">>

\* A valid-looking byte with the reserved pipe field, rendered by uDebug.
C10_Witness ==
    status = \b00001101 /\ out.backend = "uDebug" /\ out.outcome = "Panicked"

====
